---- MODULE Spec2Model ----
(***************************************************************************)
(* Lifecycle and shutdown coordination of the embedded siad daemon:        *)
(*   - sync.ThreadGroup (vendor/.../Sia/sync/threadgroup.go)               *)
(*   - ConsensusSet.loadDB / initPersist (vendor/.../consensus/persist.go) *)
(*   - Siad.Start (siad/siad.go)                                           *)
(***************************************************************************)
EXTENDS Integers, Sequences, FiniteSets, TLC

\* Bounds of the model: how many calls of each method the goroutines make.
MaxAdd == 2
MaxFns == 2
MaxStop == 2

\* The goroutines that use one ThreadGroup.
Threads == {"g1", "g2", "g3"}
NoThread == "none"
\* What each goroutine may call: every pair of methods meets concurrently, and g2
\* may call Stop while it still owes a Done.
Adders == {"g1", "g2"}
Stoppers == {"g2", "g3"}
Registrars == {"g2", "g3"}
Observers == {"g3"}

VARIABLES
    \* ---- ThreadGroup fields (threadgroup.go:23-29)
    stopChan,   \* "nil" (chanOnce not yet run), "open", "closed"
    mu,         \* holder of tg.mu, or NoThread
    wg,         \* counter of tg.wg
    stopFns,    \* tg.stopFns: sequence of registered functions (ids)
    \* ---- goroutines
    pc,         \* position of each goroutine inside the method it is running
    fn,         \* OnStop's argument fn, per goroutine (0 outside OnStop)
    i,          \* Stop's loop index i, per goroutine (1-based)
    ret,        \* the latest return of a call: [g (goroutine), op (method), val]
    held,       \* successful Adds of the goroutine not yet matched by Done
    call,       \* id of the Stop call the goroutine is running (0: none)
    \* ---- history (observations of the run, never read by the code)
    nAdd,       \* Add calls made
    nFns,       \* OnStop calls made; also the id of the last fn handed in
    stopRet,    \* per Stop call id: "running", "won" (it closed the channel and has
                \*   not returned), "nil" or "ErrStopped"
    closes,     \* number of close(tg.stopChan) executed
    fnLog,      \* calls of registered functions, in order:
                \*   [fn, by (Stop call id, 0 = inline in OnStop), g (goroutine),
                \*    signalled (stop signal closed at the call), registered]
    fnDone,     \* ids of functions that have returned, in order
    regLog,     \* ids appended to stopFns, in registration order
    nAcq,       \* Add calls that returned nil
    nRel,       \* Done calls
    nRelAfter,  \* Done calls made after the stop signal was closed
    late,       \* <<fn, goroutine>> of the OnStop calls made after a Stop returned nil
    \* ---- persisted consensus store (persist.go) and Siad.Start (siad.go)
    db,         \* the bolt database: [initialized, inconsistent, genesis]
    load,       \* history of the loadDB calls: <<>>, or one record [pre (the store
                \*   before), err, initRan, opened, init (what initDB would return)]
    peers,      \* modules.BootstrapPeers: the list of bootstrap addresses
    spc,        \* position of Start ("killed": the process was ended by a signal)
    attempts,   \* history: constructor calls made, in order: [stage, err]
    live,       \* modules constructed and holding their resources, in order
    perm,       \* Start's local perm
    dials,      \* peers handed to "go g.Connect(...)", in order (0-based indices)
    conn,       \* state of each Connect goroutine: "running", "ok", "err"
    serveCalls, \* history: calls of srv.Serve()
    startErr,   \* value returned by Start (Unset while it has not returned)
    permCalls,  \* history: calls of crypto.Perm
    serveRet,   \* history: values srv.Serve() returned, in order
    handler,    \* main has installed its signal handler (signal.Notify + goroutine)
    triggered   \* main's handler has run: dc.Close(); l.Close()

tgVars == <<stopChan, mu, wg, stopFns, pc, fn, i, ret, held, call,
            nAdd, nFns, stopRet, closes, fnLog, fnDone, regLog, nAcq, nRel,
            nRelAfter, late>>

startVars == <<db, load, peers, spc, attempts, live, perm, dials, conn,
               serveCalls, startErr, permCalls, serveRet, handler, triggered>>

vars == <<tgVars, startVars>>

ErrStopped == "ErrStopped"

\* What a call hands back to its caller.
Returned(t, op, val) == [g |-> t, op |-> op, val |-> val]

----------------------------------------------------------------------------
\* ThreadGroup

\* Faulty variant: StopChan without chanOnce makes a fresh channel on every call.
StopChan_Remake(c) == "open"

\* StopChan: chanOnce creates the channel on first use (threadgroup.go:38).
StopChan(c) == IF c = "nil" THEN "open" ELSE c

\* IsStopped: non-blocking receive on StopChan() (threadgroup.go:43-50).
IsStopped(c) == StopChan(c) = "closed"

TGInit ==
    /\ stopChan = "nil"
    /\ mu = NoThread
    /\ wg = 0
    /\ stopFns = <<>>
    /\ pc = [t \in Threads |-> "idle"]
    /\ fn = [t \in Threads |-> 0]
    /\ i = [t \in Threads |-> 0]
    /\ ret = Returned(NoThread, "none", "none")
    /\ held = [t \in Threads |-> 0]
    /\ call = [t \in Threads |-> 0]
    /\ nAdd = 0
    /\ nFns = 0
    /\ stopRet = <<>>
    /\ closes = 0
    /\ fnLog = <<>>
    /\ fnDone = <<>>
    /\ regLog = <<>>
    /\ nAcq = 0
    /\ nRel = 0
    /\ nRelAfter = 0
    /\ late = {}

\* ---- Add (threadgroup.go:53-61)

\* tg.mu.Lock()
Add_Lock(t) ==
    /\ t \in Adders
    /\ pc[t] = "idle"
    /\ mu = NoThread
    /\ nAdd < MaxAdd
    /\ mu' = t
    /\ nAdd' = nAdd + 1
    /\ pc' = [pc EXCEPT ![t] = "add_check"]
    /\ UNCHANGED <<stopChan, wg, stopFns, fn, i, ret, held, call,
                   nFns, stopRet, closes, fnLog, fnDone, regLog>>
    /\ UNCHANGED <<nAcq, nRel, nRelAfter, late>>
    /\ UNCHANGED startVars

\* Faulty variant: Add without the IsStopped check.
Add_Check_NoGuard(t) ==
    /\ pc[t] = "add_check"
    /\ stopChan' = stopChan
    /\ pc' = [pc EXCEPT ![t] = "add_inc"]
    /\ UNCHANGED <<ret, mu>>
    /\ UNCHANGED <<wg, stopFns, fn, i, held, call,
                   nAdd, nFns, stopRet, closes, fnLog, fnDone, regLog>>
    /\ UNCHANGED <<nAcq, nRel, nRelAfter, late>>
    /\ UNCHANGED startVars

\* if tg.IsStopped() { return ErrStopped }   (deferred Unlock on return)
Add_Check(t) ==
    /\ pc[t] = "add_check"
    /\ stopChan' = StopChan(stopChan)
    /\ IF IsStopped(stopChan)
          THEN /\ ret' = Returned(t, "Add", ErrStopped)
               /\ mu' = NoThread
               /\ pc' = [pc EXCEPT ![t] = "idle"]
          ELSE /\ pc' = [pc EXCEPT ![t] = "add_inc"]
               /\ UNCHANGED <<ret, mu>>
    /\ UNCHANGED <<wg, stopFns, fn, i, held, call,
                   nAdd, nFns, stopRet, closes, fnLog, fnDone, regLog>>
    /\ UNCHANGED <<nAcq, nRel, nRelAfter, late>>
    /\ UNCHANGED startVars

\* tg.wg.Add(1); return nil   (deferred Unlock on return)
Add_Inc(t) ==
    /\ pc[t] = "add_inc"
    /\ wg' = wg + 1
    /\ held' = [held EXCEPT ![t] = @ + 1]
    /\ ret' = Returned(t, "Add", "nil")
    /\ mu' = NoThread
    /\ pc' = [pc EXCEPT ![t] = "idle"]
    /\ UNCHANGED <<stopChan, stopFns, fn, i, call,
                   nAdd, nFns, stopRet, closes, fnLog, fnDone, regLog>>
    /\ nAcq' = nAcq + 1
    /\ UNCHANGED <<nRel, nRelAfter, late>>
    /\ UNCHANGED startVars

\* Faulty variant: Done takes tg.mu for the decrement, as Add does for the increment.
Done_Locked(t) ==
    /\ pc[t] = "idle"
    /\ held[t] > 0
    /\ mu = NoThread
    /\ wg' = wg - 1
    /\ held' = [held EXCEPT ![t] = @ - 1]
    /\ UNCHANGED <<stopChan, mu, stopFns, pc, fn, i, ret, call,
                   nAdd, nFns, stopRet, closes, fnLog, fnDone, regLog>>
    /\ nRel' = nRel + 1
    /\ nRelAfter' = IF stopChan = "closed" THEN nRelAfter + 1 ELSE nRelAfter
    /\ UNCHANGED <<nAcq, late>>
    /\ UNCHANGED startVars

\* ---- Done (threadgroup.go:64-66): tg.wg.Done(), no lock taken.
\* Callers call it once per successful Add (held[t] > 0).
Done(t) ==
    /\ pc[t] = "idle"
    /\ held[t] > 0
    /\ wg' = wg - 1
    /\ held' = [held EXCEPT ![t] = @ - 1]
    /\ UNCHANGED <<stopChan, mu, stopFns, pc, fn, i, ret, call,
                   nAdd, nFns, stopRet, closes, fnLog, fnDone, regLog>>
    /\ nRel' = nRel + 1
    /\ nRelAfter' = IF stopChan = "closed" THEN nRelAfter + 1 ELSE nRelAfter
    /\ UNCHANGED <<nAcq, late>>
    /\ UNCHANGED startVars

\* ---- IsStopped called by a goroutine (threadgroup.go:43-50)
IsStopped_Call(t) ==
    /\ t \in Observers
    /\ pc[t] = "idle"
    /\ stopChan' = StopChan(stopChan)
    /\ ret' = Returned(t, "IsStopped", IF IsStopped(stopChan) THEN "true" ELSE "false")
    /\ UNCHANGED <<mu, wg, stopFns, pc, fn, i, held, call,
                   nAdd, nFns, stopRet, closes, fnLog, fnDone, regLog>>
    /\ UNCHANGED <<nAcq, nRel, nRelAfter, late>>
    /\ UNCHANGED startVars

\* ---- Stop (threadgroup.go:70-84)

\* Faulty variant: the loop runs over the functions in registration order.
StopFnAt_Forward(fns, k) == fns[Len(fns) - k + 1]

\* tg.stopFns[i] with i counting down from len(tg.stopFns)-1 (here from Len, 1-based).
StopFnAt(fns, k) == fns[k]

\* tg.mu.Lock()
Stop_Lock(t) ==
    /\ t \in Stoppers
    /\ pc[t] = "idle"
    /\ mu = NoThread
    /\ Len(stopRet) < MaxStop
    /\ mu' = t
    /\ stopRet' = Append(stopRet, "running")
    /\ call' = [call EXCEPT ![t] = Len(stopRet) + 1]
    /\ pc' = [pc EXCEPT ![t] = "stop_check"]
    /\ UNCHANGED <<stopChan, wg, stopFns, fn, i, ret, held,
                   nAdd, nFns, closes, fnLog, fnDone, regLog>>
    /\ UNCHANGED <<nAcq, nRel, nRelAfter, late>>
    /\ UNCHANGED startVars

\* Faulty variant: Stop without the IsStopped check.
Stop_Check_NoGuard(t) ==
    /\ pc[t] = "stop_check"
    /\ stopChan' = StopChan(stopChan)
    /\ pc' = [pc EXCEPT ![t] = "stop_close"]
    /\ UNCHANGED <<mu, ret, stopRet, call>>
    /\ UNCHANGED <<wg, stopFns, fn, i, held,
                   nAdd, nFns, closes, fnLog, fnDone, regLog>>
    /\ UNCHANGED <<nAcq, nRel, nRelAfter, late>>
    /\ UNCHANGED startVars

\* if tg.IsStopped() { tg.mu.Unlock(); return ErrStopped }
Stop_Check(t) ==
    /\ pc[t] = "stop_check"
    /\ stopChan' = StopChan(stopChan)
    /\ IF IsStopped(stopChan)
          THEN /\ mu' = NoThread
               /\ ret' = Returned(t, "Stop", ErrStopped)
               /\ stopRet' = [stopRet EXCEPT ![call[t]] = ErrStopped]
               /\ call' = [call EXCEPT ![t] = 0]
               /\ pc' = [pc EXCEPT ![t] = "idle"]
          ELSE /\ pc' = [pc EXCEPT ![t] = "stop_close"]
               /\ UNCHANGED <<mu, ret, stopRet, call>>
    /\ UNCHANGED <<wg, stopFns, fn, i, held,
                   nAdd, nFns, closes, fnLog, fnDone, regLog>>
    /\ UNCHANGED <<nAcq, nRel, nRelAfter, late>>
    /\ UNCHANGED startVars

\* Faulty variant: Stop releases tg.mu right after closing the channel, before
\* it runs the registered functions.
Stop_Close_Unlock(t) ==
    /\ pc[t] = "stop_close"
    /\ stopChan' = "closed"
    /\ closes' = closes + 1
    /\ i' = [i EXCEPT ![t] = Len(stopFns)]
    /\ pc' = [pc EXCEPT ![t] = "stop_loop"]
    /\ stopRet' = [stopRet EXCEPT ![call[t]] = "won"]
    /\ mu' = NoThread
    /\ UNCHANGED <<wg, stopFns, fn, ret, held, call,
                   nAdd, nFns, fnLog, fnDone, regLog>>
    /\ UNCHANGED <<nAcq, nRel, nRelAfter, late>>
    /\ UNCHANGED startVars

\* close(tg.stopChan); i := len(tg.stopFns) - 1
Stop_Close(t) ==
    /\ pc[t] = "stop_close"
    /\ stopChan' = "closed"
    /\ closes' = closes + 1
    /\ i' = [i EXCEPT ![t] = Len(stopFns)]
    /\ pc' = [pc EXCEPT ![t] = "stop_loop"]
    /\ stopRet' = [stopRet EXCEPT ![call[t]] = "won"]
    /\ UNCHANGED <<mu, wg, stopFns, fn, ret, held, call,
                   nAdd, nFns, fnLog, fnDone, regLog>>
    /\ UNCHANGED <<nAcq, nRel, nRelAfter, late>>
    /\ UNCHANGED startVars

\* for ...; i >= 0; ... { tg.stopFns[i]()   -- the call
Stop_CallFn(t) ==
    /\ pc[t] = "stop_loop"
    /\ i[t] >= 1
    /\ fnLog' = Append(fnLog, [fn |-> StopFnAt(stopFns, i[t]), by |-> call[t], g |-> t,
                               signalled |-> (stopChan = "closed"),
                               registered |-> TRUE])
    /\ pc' = [pc EXCEPT ![t] = "stop_fn"]
    /\ UNCHANGED <<stopChan, mu, wg, stopFns, fn, i, ret, held, call,
                   nAdd, nFns, stopRet, closes, fnDone, regLog>>
    /\ UNCHANGED <<nAcq, nRel, nRelAfter, late>>
    /\ UNCHANGED startVars

\* tg.stopFns[i]() returns; i--
Stop_FnReturn(t) ==
    /\ pc[t] = "stop_fn"
    /\ fnDone' = Append(fnDone, StopFnAt(stopFns, i[t]))
    /\ i' = [i EXCEPT ![t] = @ - 1]
    /\ pc' = [pc EXCEPT ![t] = "stop_loop"]
    /\ UNCHANGED <<stopChan, mu, wg, stopFns, fn, ret, held, call,
                   nAdd, nFns, stopRet, closes, fnLog, regLog>>
    /\ UNCHANGED <<nAcq, nRel, nRelAfter, late>>
    /\ UNCHANGED startVars

\* Faulty variant: Stop keeps tg.mu while it waits for the drain.
Stop_Clear_KeepLock(t) ==
    /\ pc[t] = "stop_loop"
    /\ i[t] < 1
    /\ stopFns' = <<>>
    /\ pc' = [pc EXCEPT ![t] = "stop_wait"]
    /\ UNCHANGED <<stopChan, mu, wg, fn, i, ret, held, call,
                   nAdd, nFns, stopRet, closes, fnLog, fnDone, regLog>>
    /\ UNCHANGED <<nAcq, nRel, nRelAfter, late>>
    /\ UNCHANGED startVars

\* loop exit; tg.stopFns = nil; tg.mu.Unlock()
Stop_Clear(t) ==
    /\ pc[t] = "stop_loop"
    /\ i[t] < 1
    /\ stopFns' = <<>>
    /\ mu' = NoThread
    /\ pc' = [pc EXCEPT ![t] = "stop_wait"]
    /\ UNCHANGED <<stopChan, wg, fn, i, ret, held, call,
                   nAdd, nFns, stopRet, closes, fnLog, fnDone, regLog>>
    /\ UNCHANGED <<nAcq, nRel, nRelAfter, late>>
    /\ UNCHANGED startVars

\* Faulty variant: Stop returns without tg.wg.Wait().
Stop_Wait_NoWait(t) ==
    /\ pc[t] = "stop_wait"
    /\ ret' = Returned(t, "Stop", "nil")
    /\ stopRet' = [stopRet EXCEPT ![call[t]] = "nil"]
    /\ call' = [call EXCEPT ![t] = 0]
    /\ pc' = [pc EXCEPT ![t] = "idle"]
    /\ UNCHANGED <<stopChan, mu, wg, stopFns, fn, i, held,
                   nAdd, nFns, closes, fnLog, fnDone, regLog>>
    /\ UNCHANGED <<nAcq, nRel, nRelAfter, late>>
    /\ UNCHANGED startVars

\* tg.wg.Wait(); return nil
Stop_Wait(t) ==
    /\ pc[t] = "stop_wait"
    /\ wg = 0
    /\ ret' = Returned(t, "Stop", "nil")
    /\ stopRet' = [stopRet EXCEPT ![call[t]] = "nil"]
    /\ call' = [call EXCEPT ![t] = 0]
    /\ pc' = [pc EXCEPT ![t] = "idle"]
    /\ UNCHANGED <<stopChan, mu, wg, stopFns, fn, i, held,
                   nAdd, nFns, closes, fnLog, fnDone, regLog>>
    /\ UNCHANGED <<nAcq, nRel, nRelAfter, late>>
    /\ UNCHANGED startVars

\* ---- OnStop (threadgroup.go:89-98)

\* tg.mu.Lock(); the caller hands in a fresh function
OnStop_Lock(t) ==
    /\ t \in Registrars
    /\ pc[t] = "idle"
    /\ mu = NoThread
    /\ nFns < MaxFns
    /\ mu' = t
    /\ nFns' = nFns + 1
    /\ fn' = [fn EXCEPT ![t] = nFns + 1]
    /\ pc' = [pc EXCEPT ![t] = "onstop_check"]
    /\ UNCHANGED <<stopChan, wg, stopFns, i, ret, held, call,
                   nAdd, stopRet, closes, fnLog, fnDone, regLog>>
    /\ late' = IF \E c \in 1..Len(stopRet) : stopRet[c] = "nil"
                  THEN late \cup {<<nFns + 1, t>>}
                  ELSE late
    /\ UNCHANGED <<nAcq, nRel, nRelAfter>>
    /\ UNCHANGED startVars

\* Faulty variant: OnStop appends the function whether or not the group is stopped.
OnStop_Check_AlwaysAppend(t) ==
    /\ pc[t] = "onstop_check"
    /\ stopChan' = StopChan(stopChan)
    /\ mu' = NoThread
    /\ stopFns' = Append(stopFns, fn[t])
    /\ regLog' = Append(regLog, fn[t])
    /\ fn' = [fn EXCEPT ![t] = 0]
    /\ pc' = [pc EXCEPT ![t] = "idle"]
    /\ UNCHANGED <<wg, i, ret, held, call,
                   nAdd, nFns, stopRet, closes, fnLog, fnDone>>
    /\ UNCHANGED <<nAcq, nRel, nRelAfter, late>>
    /\ UNCHANGED startVars

\* Faulty variant: OnStop on a stopped group returns without calling the function.
OnStop_Check_Drop(t) ==
    /\ pc[t] = "onstop_check"
    /\ stopChan' = StopChan(stopChan)
    /\ mu' = NoThread
    /\ IF IsStopped(stopChan)
          THEN /\ pc' = [pc EXCEPT ![t] = "idle"]
               /\ UNCHANGED <<stopFns, regLog>>
          ELSE /\ stopFns' = Append(stopFns, fn[t])
               /\ regLog' = Append(regLog, fn[t])
               /\ pc' = [pc EXCEPT ![t] = "idle"]
    /\ fn' = [fn EXCEPT ![t] = 0]
    /\ UNCHANGED <<wg, i, ret, held, call,
                   nAdd, nFns, stopRet, closes, fnLog, fnDone>>
    /\ UNCHANGED <<nAcq, nRel, nRelAfter, late>>
    /\ UNCHANGED startVars

\* if tg.IsStopped() { tg.mu.Unlock(); ... } else { append; tg.mu.Unlock() }
OnStop_Check(t) ==
    /\ pc[t] = "onstop_check"
    /\ stopChan' = StopChan(stopChan)
    /\ mu' = NoThread
    /\ IF IsStopped(stopChan)
          THEN /\ pc' = [pc EXCEPT ![t] = "onstop_call"]
               /\ UNCHANGED <<stopFns, regLog, fn>>
          ELSE /\ stopFns' = Append(stopFns, fn[t])
               /\ regLog' = Append(regLog, fn[t])
               /\ fn' = [fn EXCEPT ![t] = 0]
               /\ pc' = [pc EXCEPT ![t] = "idle"]
    /\ UNCHANGED <<wg, i, ret, held, call,
                   nAdd, nFns, stopRet, closes, fnLog, fnDone>>
    /\ UNCHANGED <<nAcq, nRel, nRelAfter, late>>
    /\ UNCHANGED startVars

\* fn()   -- the call, outside the lock
OnStop_CallFn(t) ==
    /\ pc[t] = "onstop_call"
    /\ fnLog' = Append(fnLog, [fn |-> fn[t], by |-> 0, g |-> t,
                               signalled |-> (stopChan = "closed"),
                               registered |-> FALSE])
    /\ pc' = [pc EXCEPT ![t] = "onstop_fn"]
    /\ UNCHANGED <<stopChan, mu, wg, stopFns, fn, i, ret, held, call,
                   nAdd, nFns, stopRet, closes, fnDone, regLog>>
    /\ UNCHANGED <<nAcq, nRel, nRelAfter, late>>
    /\ UNCHANGED startVars

\* fn() returns; OnStop returns
OnStop_FnReturn(t) ==
    /\ pc[t] = "onstop_fn"
    /\ fnDone' = Append(fnDone, fn[t])
    /\ pc' = [pc EXCEPT ![t] = "idle"]
    /\ fn' = [fn EXCEPT ![t] = 0]
    /\ UNCHANGED <<stopChan, mu, wg, stopFns, i, ret, held, call,
                   nAdd, nFns, stopRet, closes, fnLog, regLog>>
    /\ UNCHANGED <<nAcq, nRel, nRelAfter, late>>
    /\ UNCHANGED startVars

\* One step of a method call already in progress.
Step(t) ==
    \/ Add_Check(t)
    \/ Add_Inc(t)
    \/ Stop_Check(t)
    \/ Stop_Close(t)
    \/ Stop_CallFn(t)
    \/ Stop_FnReturn(t)
    \/ Stop_Clear(t)
    \/ Stop_Wait(t)
    \/ OnStop_Check(t)
    \/ OnStop_CallFn(t)
    \/ OnStop_FnReturn(t)

\* A goroutine starts a call (or releases).
Begin(t) ==
    \/ Add_Lock(t)
    \/ Done(t)
    \/ IsStopped_Call(t)
    \/ Stop_Lock(t)
    \/ OnStop_Lock(t)

TGNext == \E t \in Threads : Begin(t) \/ Step(t)

----------------------------------------------------------------------------
\* Errors are values: the nil error, or the text of an error.
Nil == <<>>
Err(text) == <<text>>
\* Start has not returned: no value yet, different from nil and from every error.
Unset == <<"unset", "no value">>

\* Errors a module constructor or a system call can return.
ModuleErrs == {Err("address already in use"), Err("permission denied")}

----------------------------------------------------------------------------
\* ConsensusSet persistence (persist.go)

\* Identity of the genesis block the running binary expects: cs.blockRoot.Block.ID().
ExpectedGenesis == "genesis-this-binary"
OtherGenesis == "genesis-other-binary"

ErrInconsistent == Err("database contains inconsistencies")
ErrWrongGenesis == Err("Blockchain has wrong genesis block, exiting.")
\* What getPath(tx, 0) hands back when the store holds no block at height 0: an
\* error and the zero block id.
ErrNoPath == Err("no block at height 0")
ZeroID == "zero-id"

\* A store no binary has initialized yet: a new bolt file.
FreshDB == [initialized |-> FALSE, inconsistent |-> FALSE, genesis |-> "none"]

\* The stores a boot can find on disk: the file at the configured path is an
\* input of loadDB, not only what an earlier run of initDB left there.  genesis
\* "none" on an initialized store is a damaged or foreign file: marked
\* initialized, no block at height 0.
StoredDBs ==
    {FreshDB} \cup [initialized : {TRUE}, inconsistent : BOOLEAN,
                    genesis : {ExpectedGenesis, OtherGenesis, "none"}]

\* What one boot runs with: the error (or Nil) of each external call, and the
\* build's build.DEBUG flag.
Envs == [mkdir : {Nil, Err("permission denied")},
         logger : {Nil, Err("permission denied")},
         open : {Nil, Err("timeout")},
         init : {Nil, Err("disk full")},
         debug : BOOLEAN]

\* dbInitialized(tx), inconsistencyDetected(tx): reads of the store.
dbInitialized(d) == d.initialized
inconsistencyDetected(d) == d.inconsistent
\* getPath(tx, 0): the id of the block at height 0 and an error, the two results
\* the call at persist.go:45 receives.
getPath0(d) ==
    IF d.genesis = "none"
       THEN [id |-> ZeroID, err |-> ErrNoPath]
       ELSE [id |-> d.genesis, err |-> Nil]

\* cs.initDB(tx): writes the genesis record and marks the store initialized.
initDB(d, env) ==
    IF env.init # Nil
       THEN [err |-> env.init, db |-> d]
       ELSE [err |-> Nil,
             db |-> [initialized |-> TRUE, inconsistent |-> FALSE,
                     genesis |-> ExpectedGenesis]]

\* The function loadDB hands to cs.db.Update (persist.go:32-53). panicked: the
\* function ended in panic(err) (line 47) and err is the value it panicked with.
loadTx(d, env) ==
    IF ~dbInitialized(d)
       THEN initDB(d, env) @@ [initRan |-> TRUE, panicked |-> FALSE]
       ELSE IF inconsistencyDetected(d)
               THEN [err |-> ErrInconsistent, db |-> d, initRan |-> FALSE,
                     panicked |-> FALSE]
               ELSE LET g == getPath0(d)
                    IN  IF env.debug /\ g.err # Nil
                           THEN [err |-> g.err, db |-> d, initRan |-> FALSE,
                                 panicked |-> TRUE]
                           ELSE IF g.id # ExpectedGenesis
                                   THEN [err |-> ErrWrongGenesis, db |-> d,
                                         initRan |-> FALSE, panicked |-> FALSE]
                                   ELSE [err |-> Nil, db |-> d, initRan |-> FALSE,
                                         panicked |-> FALSE]

\* bolt's Update: commits what the function wrote when it returns nil, rolls back
\* when it returns an error or panics.
dbUpdate(d, r) == IF r.err = Nil THEN r ELSE [r EXCEPT !.db = d]

\* loadDB (persist.go:24-54): result [err, db, initRan, panicked, opened].
loadDB(d, env) ==
    IF env.open # Nil
       THEN [err |-> env.open, db |-> d, initRan |-> FALSE, panicked |-> FALSE,
             opened |-> FALSE]
       ELSE dbUpdate(d, loadTx(d, env)) @@ [opened |-> TRUE]

\* initPersist (persist.go:58-78): result [err, db, panicked, load], load the
\* history of the loadDB call (empty when it was not reached). A panic in loadDB
\* passes through: initPersist has no recover.
initPersist(d, env) ==
    IF env.mkdir # Nil
       THEN [err |-> env.mkdir, db |-> d, panicked |-> FALSE, load |-> <<>>]
       ELSE IF env.logger # Nil
               THEN [err |-> env.logger, db |-> d, panicked |-> FALSE, load |-> <<>>]
               ELSE LET r == loadDB(d, env)
                    IN  [err |-> r.err, db |-> r.db, panicked |-> r.panicked,
                         load |-> <<[pre |-> d, err |-> r.err, initRan |-> r.initRan,
                                     panicked |-> r.panicked, debug |-> env.debug,
                                     opened |-> r.opened, init |-> env.init]>>]

\* consensus.New(g, dir): builds the set and calls initPersist; its error is the
\* constructor's error.
consensus_New(d, env) == initPersist(d, env)

----------------------------------------------------------------------------
\* Siad.Start (siad.go:21-62)

MaxPeers == 4
\* "connect to 3 random bootstrap nodes": perm[:3] (siad.go:51)
BootstrapDials == 3

StageOrder == <<"gateway", "consensus", "tpool", "api">>

\* The lists modules.BootstrapPeers can hold: n known addresses.
KnownPeers == <<"p1:9981", "p2:9981", "p3:9981", "p4:9981", "p5:9981", "p6:9981">>
PeerList(n) == SubSeq(KnownPeers, 1, n)

\* Permutations of 0..n-1 as sequences: the values crypto.Perm(n) can return.
Perms(n) ==
    {p \in [1..n -> 0..(n - 1)] : \A a, b \in 1..n : a # b => p[a] # p[b]}

StartInit ==
    /\ db \in StoredDBs
    /\ peers \in {PeerList(n) : n \in 0..MaxPeers}
    /\ load = <<>>
    /\ spc = "gateway"
    /\ attempts = <<>>
    /\ live = <<>>
    /\ perm = <<>>
    /\ dials = <<>>
    /\ conn = <<>>
    /\ serveCalls = 0
    /\ startErr = Unset
    /\ permCalls = 0
    /\ serveRet = <<>>
    /\ handler = FALSE
    /\ triggered = FALSE

\* Faulty variant: Start goes on to the next stage whatever the constructor returned.
AfterStage_IgnoreErr(stage, err, next) ==
    /\ attempts' = Append(attempts, [stage |-> stage, err |-> err])
    /\ spc' = next
    /\ live' = Append(live, stage)
    /\ startErr' = startErr

\* Faulty variant: on a constructor's error Start closes the modules built so far.
AfterStage_Teardown(stage, err, next) ==
    /\ attempts' = Append(attempts, [stage |-> stage, err |-> err])
    /\ IF err # Nil
          THEN /\ startErr' = err
               /\ spc' = "returned"
               /\ live' = <<>>
          ELSE /\ spc' = next
               /\ live' = Append(live, stage)
               /\ startErr' = startErr

\* "if err != nil { return }" after a constructor (siad.go:25-27, 31-33, 37-39,
\* 42-44): Start goes on to `next` or returns err as it is.
AfterStage(stage, err, next) ==
    /\ attempts' = Append(attempts, [stage |-> stage, err |-> err])
    /\ IF err # Nil
          THEN /\ startErr' = err
               /\ spc' = "returned"
               /\ live' = live
          ELSE /\ spc' = next
               /\ live' = Append(live, stage)
               /\ startErr' = startErr

\* g, err := gateway.New(s.RPCAddr, modules.GatewayDir)   (siad.go:23-27)
Start_Gateway ==
    /\ spc = "gateway"
    /\ \E err \in {Nil} \cup ModuleErrs : AfterStage("gateway", err, "consensus")
    /\ UNCHANGED <<db, load, peers, perm, dials, conn, serveCalls>>
    /\ UNCHANGED <<permCalls, serveRet, handler, triggered>>
    /\ UNCHANGED tgVars

\* cs, err := consensus.New(g, modules.ConsensusDir)   (siad.go:29-33). When
\* loadDB panics the call never returns and the process ends inside it.
Start_Consensus ==
    /\ spc = "consensus"
    /\ \E env \in Envs :
          LET r == consensus_New(db, env)
          IN  /\ db' = r.db
              /\ load' = r.load
              /\ IF r.panicked
                    THEN /\ spc' = "load_panicked"
                         /\ UNCHANGED <<attempts, live, startErr>>
                    ELSE AfterStage("consensus", r.err, "tpool")
    /\ UNCHANGED <<peers, perm, dials, conn, serveCalls>>
    /\ UNCHANGED <<permCalls, serveRet, handler, triggered>>
    /\ UNCHANGED tgVars

\* tpool, err := transactionpool.New(cs, g, modules.TransactionPoolDir)  (siad.go:35-39)
Start_Tpool ==
    /\ spc = "tpool"
    /\ \E err \in {Nil} \cup ModuleErrs : AfterStage("tpool", err, "api")
    /\ UNCHANGED <<db, load, peers, perm, dials, conn, serveCalls>>
    /\ UNCHANGED <<permCalls, serveRet, handler, triggered>>
    /\ UNCHANGED tgVars

\* srv, err := api.NewServer(s.APIAddr, ...)   (siad.go:41-44)
Start_Server ==
    /\ spc = "api"
    /\ \E err \in {Nil} \cup ModuleErrs : AfterStage("api", err, "perm")
    /\ UNCHANGED <<db, load, peers, perm, dials, conn, serveCalls>>
    /\ UNCHANGED <<permCalls, serveRet, handler, triggered>>
    /\ UNCHANGED tgVars

\* The error crypto.Perm returns when the random source cannot be read.
PermErr == Err("entropy unavailable")

\* perm, err := crypto.Perm(len(modules.BootstrapPeers))   (siad.go:47-50)
Start_Perm ==
    /\ spc = "perm"
    /\ \/ /\ startErr' = PermErr
          /\ spc' = "returned"
          /\ perm' = perm
       \/ /\ perm' \in Perms(Len(peers))
          /\ spc' = "dial"
          /\ startErr' = startErr
    /\ UNCHANGED <<db, load, peers, attempts, live, dials, conn, serveCalls>>
    /\ permCalls' = permCalls + 1
    /\ UNCHANGED <<serveRet, handler, triggered>>
    /\ UNCHANGED tgVars

\* Faulty variant: every dial goes to the first index of the permutation.
Start_Dial_FirstOnly ==
    /\ spc = "dial"
    /\ IF Len(perm) < BootstrapDials
          THEN /\ spc' = "panicked"
               /\ UNCHANGED <<dials, conn>>
          ELSE /\ dials' = Append(dials, perm[1])
               /\ conn' = Append(conn, "running")
               /\ spc' = IF Len(dials) + 1 = BootstrapDials THEN "serve" ELSE "dial"
    /\ UNCHANGED <<db, load, peers, attempts, live, perm, serveCalls, startErr>>
    /\ UNCHANGED <<permCalls, serveRet, handler, triggered>>
    /\ UNCHANGED tgVars

\* for _, i := range perm[:3] { go g.Connect(modules.BootstrapPeers[i]) }
\* (siad.go:51-53), one iteration per step: each go statement is a statement of
\* its own, and a Connect already started may return, or the process may be
\* ended, between two of them.  perm[:3] is evaluated once, before the first
\* iteration, and panics (slice bounds out of range) when len(perm) < 3.
Start_Dial ==
    /\ spc = "dial"
    /\ IF Len(perm) < BootstrapDials
          THEN /\ spc' = "panicked"
               /\ UNCHANGED <<dials, conn>>
          ELSE /\ dials' = Append(dials, perm[Len(dials) + 1])
               /\ conn' = Append(conn, "running")
               /\ spc' = IF Len(dials) + 1 = BootstrapDials THEN "serve" ELSE "dial"
    /\ UNCHANGED <<db, load, peers, attempts, live, perm, serveCalls, startErr>>
    /\ UNCHANGED <<permCalls, serveRet, handler, triggered>>
    /\ UNCHANGED tgVars

\* A Connect goroutine ends, with or without an error; nobody reads its result.
Connect_Return ==
    /\ \E k \in 1..Len(conn) :
          /\ conn[k] = "running"
          /\ \E out \in {"ok", "err"} : conn' = [conn EXCEPT ![k] = out]
    /\ UNCHANGED <<db, load, peers, spc, attempts, live, perm, dials,
                   serveCalls, startErr>>
    /\ UNCHANGED <<permCalls, serveRet, handler, triggered>>
    /\ UNCHANGED tgVars

\* Faulty variant: Start waits for every Connect to return before it calls Serve.
Start_Serve_AfterDials ==
    /\ spc = "serve"
    /\ \A k \in DOMAIN conn : conn[k] # "running"
    /\ serveCalls' = serveCalls + 1
    /\ spc' = "serving"
    /\ UNCHANGED <<db, load, peers, attempts, live, perm, dials, conn, startErr>>
    /\ UNCHANGED <<permCalls, serveRet, handler, triggered>>
    /\ UNCHANGED tgVars

\* err = srv.Serve()  -- the call; Start is blocked in it   (siad.go:56)
Start_Serve ==
    /\ spc = "serve"
    /\ serveCalls' = serveCalls + 1
    /\ spc' = "serving"
    /\ UNCHANGED <<db, load, peers, attempts, live, perm, dials, conn, startErr>>
    /\ UNCHANGED <<permCalls, serveRet, handler, triggered>>
    /\ UNCHANGED tgVars

\* srv.Serve() returns (the listener failed, or the server was closed); Start
\* returns the same value   (siad.go:56-61)
Serve_Return ==
    /\ spc = "serving"
    /\ \E err \in {Nil} \cup ModuleErrs :
          /\ startErr' = err
          /\ serveRet' = Append(serveRet, err)
    /\ spc' = "returned"
    /\ UNCHANGED <<db, load, peers, attempts, live, perm, dials, conn, serveCalls>>
    /\ UNCHANGED <<permCalls, handler, triggered>>
    /\ UNCHANGED tgVars

\* main reaches signal.Notify and starts the goroutine that waits for the signal
\* only after dc.Start() has returned nil   (part_000:80-96)
Main_Notify ==
    /\ spc = "returned"
    /\ startErr = Nil
    /\ ~handler
    /\ handler' = TRUE
    /\ UNCHANGED <<db, load, peers, spc, attempts, live, perm, dials, conn>>
    /\ UNCHANGED <<serveCalls, startErr, permCalls, serveRet, triggered>>
    /\ UNCHANGED tgVars

\* An interrupt arrives before main has reached signal.Notify: while Start is
\* running, or after Start returned nil and main is still setting up
\* (part_000:85-96). The runtime's default disposition ends the process: Start
\* and the dial goroutines stop where they are and nothing is closed. Not when
\* the process is already ending (a panic, or log.Fatal on Start's error).
Signal_Default ==
    /\ ~handler
    /\ spc \notin {"panicked", "load_panicked", "killed"}
    /\ spc = "returned" => startErr = Nil
    /\ spc' = "killed"
    /\ conn' = [k \in DOMAIN conn |-> IF conn[k] = "running" THEN "killed" ELSE conn[k]]
    /\ UNCHANGED <<db, load, peers, attempts, live, perm, dials>>
    /\ UNCHANGED <<serveCalls, startErr, permCalls, serveRet, handler, triggered>>
    /\ UNCHANGED tgVars

\* An interrupt arrives after the handler was installed: the goroutine calls
\* dc.Close() and l.Close()   (part_000:97-102)
Signal_Handled ==
    /\ handler
    /\ ~triggered
    /\ triggered' = TRUE
    /\ UNCHANGED <<db, load, peers, spc, attempts, live, perm, dials, conn>>
    /\ UNCHANGED <<serveCalls, startErr, permCalls, serveRet, handler>>
    /\ UNCHANGED tgVars

StartNext ==
    \/ Start_Gateway
    \/ Start_Consensus
    \/ Start_Tpool
    \/ Start_Server
    \/ Start_Perm
    \/ Start_Dial
    \/ Connect_Return
    \/ Start_Serve
    \/ Serve_Return
    \/ Main_Notify
    \/ Signal_Default
    \/ Signal_Handled

----------------------------------------------------------------------------
\* Specifications

\* Start not yet called, on a fresh store.
StartIdle ==
    /\ db = FreshDB
    /\ peers = PeerList(BootstrapDials)
    /\ load = <<>>
    /\ spc = "gateway"
    /\ attempts = <<>>
    /\ live = <<>>
    /\ perm = <<>>
    /\ dials = <<>>
    /\ conn = <<>>
    /\ serveCalls = 0
    /\ startErr = Unset
    /\ permCalls = 0
    /\ serveRet = <<>>
    /\ handler = FALSE
    /\ triggered = FALSE

\* The goroutines of one ThreadGroup.
Init == TGInit /\ StartIdle

Next == TGNext

Spec == Init /\ [][Next]_vars

\* The same goroutines under the Go scheduler: a goroutine inside a method call
\* (holding tg.mu, running a registered function, or woken from tg.wg.Wait) keeps
\* running; registered functions return.  Nothing obliges a goroutine to begin a
\* call or to call Done.
SpecFair == Init /\ [][Next]_vars /\ \A t \in Threads : WF_vars(Step(t))

\* One boot of the daemon.
InitStart == TGInit /\ StartInit

NextStart == StartNext

SpecStart == InitStart /\ [][NextStart]_vars

----------------------------------------------------------------------------
\* Properties of the ThreadGroup

Range(q) == {q[k] : k \in 1..Len(q)}
Count(q, x) == Cardinality({k \in 1..Len(q) : q[k] = x})

StopCalls == 1..Len(stopRet)
\* The Stop calls that closed the channel.
Winners == {c \in StopCalls : stopRet[c] \in {"won", "nil"}}
WinnerReturned == \E c \in StopCalls : stopRet[c] = "nil"
InOnStop(t) == pc[t] \in {"onstop_check", "onstop_call", "onstop_fn"}
\* How often function h was called, and how often it returned.
Runs(h) == Cardinality({k \in 1..Len(fnLog) : fnLog[k].fn = h})
Returns(h) == Count(fnDone, h)
\* The functions Stop called, in the order of the calls.
RECURSIVE StopRuns(_)
StopRuns(q) ==
    IF q = <<>> THEN <<>>
    ELSE IF q[1].by # 0 THEN <<q[1].fn>> \o StopRuns(Tail(q))
         ELSE StopRuns(Tail(q))

\* C1: the Stop call that closed the channel returns nil and nothing else, and it
\* has returned only in states where the counter is zero and no successful Add is
\* still waiting for its Done.
C1_StopReturnsDrained ==
    /\ \A c \in StopCalls :
          stopRet[c] = "nil" => /\ wg = 0
                                /\ \A t \in Threads : held[t] = 0
    /\ Cardinality(Winners) = closes
    /\ \A t \in Threads :
          pc[t] \in {"stop_close", "stop_loop", "stop_fn", "stop_wait"} =>
             stopRet[call[t]] \in {"running", "won"}

\* C1 witness: Stop returned nil after an Add had succeeded and its Done came
\* after the stop signal.
C1_Witness ==
    /\ WinnerReturned
    /\ nAcq >= 1
    /\ nRelAfter >= 1

\* C2: no function handed to OnStop is ever called twice, and once a Stop has
\* returned nil and no OnStop call is in progress every function handed in has
\* been called, and has returned, exactly once.
C2_EveryHookExactlyOnce ==
    /\ \A h \in 1..nFns : Runs(h) <= 1 /\ Returns(h) <= Runs(h)
    /\ (WinnerReturned /\ \A t \in Threads : ~InOnStop(t)) =>
          \A h \in 1..nFns : Runs(h) = 1 /\ Returns(h) = 1

\* C2 witness: all is quiet, two Stop calls were made, one function was run by
\* Stop and another one inline by a late OnStop.
C2_Witness ==
    /\ WinnerReturned
    /\ \A t \in Threads : pc[t] = "idle"
    /\ Len(stopRet) >= 2
    /\ \E a, b \in 1..Len(fnLog) : fnLog[a].by # 0 /\ fnLog[b].by = 0

\* C3: the functions registered before Stop are called by Stop in reverse
\* registration order, one after the other, each with the stop signal already
\* closed, and all of them have returned when the winning Stop has returned.
C3_ReverseOrderAfterSignal ==
    /\ LET runs == StopRuns(fnLog)
       IN  /\ Len(runs) <= Len(regLog)
           /\ \A k \in 1..Len(runs) : runs[k] = regLog[Len(regLog) - k + 1]
    /\ \A k \in 1..Len(fnLog) : fnLog[k].signalled
    /\ \A t \in Threads :
          pc[t] = "stop_wait" => \A h \in Range(regLog) : Returns(h) = 1
    /\ WinnerReturned => \A h \in Range(regLog) : Returns(h) = 1

\* C3 witness: two functions were registered, Stop called the second first, and
\* Stop has returned.
C3_Witness ==
    /\ WinnerReturned
    /\ regLog = <<1, 2>>
    /\ StopRuns(fnLog) = <<2, 1>>

\* A step in which a Stop call returns ErrStopped.
LoserReturns ==
    \E t \in Threads :
       /\ pc[t] = "stop_check"
       /\ pc'[t] = "idle"

\* C4: at most one Stop call closes the channel; when all Stop calls have returned
\* exactly one returned nil and every other one ErrStopped; every function Stop
\* calls is called by the winning call; and the step in which a call returns
\* ErrStopped calls no function, closes nothing and leaves the function list alone.
C4_StateInv ==
    /\ closes <= 1
    /\ Cardinality(Winners) <= 1
    /\ \A c \in StopCalls : stopRet[c] \in {"running", "won", "nil", ErrStopped}
    /\ (StopCalls # {} /\ \A c \in StopCalls : stopRet[c] \in {"nil", ErrStopped}) =>
          /\ Cardinality({c \in StopCalls : stopRet[c] = "nil"}) = 1
          /\ closes = 1
    /\ \A k \in 1..Len(fnLog) : fnLog[k].by # 0 => fnLog[k].by \in Winners

\* C4 (the whole claim): the state part above holds always, and a Stop call that
\* returns ErrStopped changes nothing but the lock and its own return.
C4_FirstStopWins ==
    /\ []C4_StateInv
    /\ [][LoserReturns =>
             /\ \E t \in Threads : /\ pc[t] = "stop_check"
                                   /\ ret' = Returned(t, "Stop", ErrStopped)
                                   /\ stopRet'[call[t]] = ErrStopped
             /\ fnLog' = fnLog
             /\ fnDone' = fnDone
             /\ closes' = closes
             /\ stopChan' = stopChan
             /\ stopFns' = stopFns]_vars

\* C4 witness: two Stop calls have returned, one nil and one ErrStopped, and the
\* functions registered before were run.
C4_Witness ==
    /\ Len(stopRet) >= 2
    /\ \E a, b \in StopCalls : stopRet[a] = "nil" /\ stopRet[b] = ErrStopped
    /\ Len(fnLog) >= 1

\* A step in which an Add call returns.
AddReturns(t) == pc[t] \in {"add_check", "add_inc"} /\ pc'[t] = "idle"
\* Some Stop call has taken the lock (its first statement).
StopInvoked == Len(stopRet) > 0
Draining == \E t \in Threads : pc[t] = "stop_wait"

\* C5: an Add that takes the lock after a Stop call took it returns ErrStopped;
\* the counter is never incremented once the stop signal is closed (nor once a
\* Stop was invoked); and while a Stop waits for the counter, it only decreases.
C5_AddAfterStopFails ==
    [][/\ \A t \in Threads :
             (AddReturns(t) /\ StopInvoked) =>
                 /\ ret' = Returned(t, "Add", ErrStopped)
                 /\ wg' = wg
                 /\ nAcq' = nAcq
       /\ (wg' > wg) => (stopChan # "closed" /\ ~StopInvoked)
       /\ (Draining \/ stopChan = "closed") => wg' <= wg]_vars

\* C5 witness: an Add has just returned ErrStopped while a Stop is waiting for
\* a counter that is not yet zero.
C5_Witness ==
    /\ ret.op = "Add"
    /\ ret.val = ErrStopped
    /\ Draining
    /\ wg > 0

\* C6: a function handed to OnStop after a Stop returned nil is never appended to
\* the function list, which stays empty; it is called at most once, inline, by the
\* goroutine that called OnStop; and once that OnStop call has returned it has
\* been called and has returned exactly once.
C6_LateOnStopRunsInline ==
    \A p \in late :
       LET h == p[1]
           t == p[2]
       IN  /\ h \notin Range(regLog)
           /\ stopFns = <<>>
           /\ Runs(h) <= 1
           /\ \A k \in 1..Len(fnLog) :
                 fnLog[k].fn = h => fnLog[k].by = 0 /\ fnLog[k].g = t
           /\ ~(InOnStop(t) /\ fn[t] = h) => Runs(h) = 1 /\ Returns(h) = 1
           /\ Returns(h) = 1 - (IF InOnStop(t) /\ fn[t] = h THEN 1 ELSE 0)

\* C6 witness: an OnStop call made after Stop returned has itself returned.
C6_Witness ==
    \E p \in late : ~InOnStop(p[2]) /\ Returns(p[1]) = 1

\* C7: under fair scheduling, whenever the stop signal is closed and the counter
\* is zero (every successful Add got its Done) the winning Stop returns later on;
\* it has returned only if the counter reached zero after the signal, so it never
\* returns in a run where some Add is never matched; and a goroutine that owes a
\* Done can always make it, whoever holds tg.mu and whatever Stop is doing.
C7_StopDrains ==
    /\ (closes = 1 /\ wg = 0) ~> WinnerReturned
    /\ [](WinnerReturned => (closes = 1 /\ wg = 0))
    /\ [](\A t \in Threads : (pc[t] = "idle" /\ held[t] > 0) => ENABLED Done(t))

\* C7 witness: Stop has returned after both Adds succeeded and a Done arrived
\* after the stop signal.
C7_Witness ==
    /\ WinnerReturned
    /\ nAcq = MaxAdd
    /\ nRelAfter >= 1
    /\ \A t \in Threads : pc[t] = "idle"

----------------------------------------------------------------------------
\* Properties of Start and of the consensus store

NAttempts == Len(attempts)
\* The last constructor called returned an error.
StageFailed == NAttempts >= 1 /\ attempts[NAttempts].err # Nil

\* C8: the constructors are called in the order gateway, consensus, tpool, api,
\* each only after the one before returned nil; after a constructor returned an
\* error no other constructor is called, crypto.Perm is not called, no Connect is
\* started, Serve is not called, and Start has returned that error. A constructor
\* that ends in a panic returns nothing: nothing after it is called either.
C8_StagesInOrder ==
    /\ NAttempts <= Len(StageOrder)
    /\ \A k \in 1..NAttempts : attempts[k].stage = StageOrder[k]
    /\ \A k \in 1..(NAttempts - 1) : attempts[k].err = Nil
    /\ live = [k \in 1..Len(live) |-> StageOrder[k]]
    /\ Len(live) = Cardinality({k \in 1..NAttempts : attempts[k].err = Nil})
    /\ StageFailed =>
          /\ spc = "returned"
          /\ startErr = attempts[NAttempts].err
          /\ perm = <<>>
          /\ dials = <<>>
          /\ conn = <<>>
          /\ serveCalls = 0
    /\ (spc \in {"perm", "dial", "serve", "serving", "panicked"}
          \/ perm # <<>> \/ dials # <<>> \/ serveCalls > 0) =>
          /\ NAttempts = Len(StageOrder)
          /\ \A k \in 1..NAttempts : attempts[k].err = Nil
    /\ \A k \in 1..Len(StageOrder) :
          spc = StageOrder[k] => NAttempts = k - 1 /\ startErr = Unset
    /\ spc = "load_panicked" =>
          /\ NAttempts = 1
          /\ perm = <<>>
          /\ dials = <<>>
          /\ conn = <<>>
          /\ serveCalls = 0
          /\ startErr = Unset

\* C8 witness: the consensus constructor failed on an inconsistent store after the
\* gateway was built, and Start has returned.
C8_Witness ==
    /\ NAttempts = 2
    /\ attempts[1].err = Nil
    /\ attempts[2].err = ErrInconsistent
    /\ spc = "returned"

\* The error the specification names: the cause wrapped with the stage.
StageConstructionFailed(stage, cause) == <<stage>> \o cause

\* C9: when a constructor fails, the error Start returns is the constructor's
\* error wrapped with the stage that produced it.
C9_ErrorIdentifiesStage ==
    (StageFailed /\ spc = "returned") =>
        startErr = StageConstructionFailed(attempts[NAttempts].stage,
                                           attempts[NAttempts].err)

----------------------------------------------------------------------------
\* Properties of the bootstrap step

\* The address handed to the k-th Connect: modules.BootstrapPeers[i].
DialAddr(k) == peers[dials[k] + 1]
\* Start has reached or passed the call of Serve.
PastBootstrap == spc \in {"serve", "serving"} \/ serveCalls > 0

\* C11: with at least 3 bootstrap peers, once the permutation is drawn the
\* bootstrap step starts exactly 3 Connects, to the entries at the first three
\* indices of the permutation, which are pairwise distinct entries of the list;
\* no Connect is started in any other number, and the peer list never changes.
\* The Connects are started one by one in the order of the permutation: while
\* the loop runs the started ones are the first of these three, and once Start
\* is past the loop they are all three and no further one is started.
C11_StateInv ==
    /\ Len(dials) <= BootstrapDials
    /\ Len(conn) = Len(dials)
    /\ dials # <<>> =>
          /\ Len(peers) >= BootstrapDials
          /\ dials = SubSeq(perm, 1, Len(dials))
          /\ \A k \in 1..Len(dials) : dials[k] \in 0..(Len(peers) - 1)
          /\ \A j, k \in 1..Len(dials) : j # k =>
                /\ dials[j] # dials[k]
                /\ DialAddr(j) # DialAddr(k)
    /\ (Len(dials) \in 1..(BootstrapDials - 1)) => spc \in {"dial", "killed"}
    /\ (Len(peers) >= BootstrapDials /\ PastBootstrap) => Len(dials) = BootstrapDials
C11_ThreeDistinctDials ==
    /\ []C11_StateInv
    /\ [][/\ peers' = peers
          /\ dials' # dials =>
                /\ spc = "dial"
                /\ Len(dials) < BootstrapDials
                /\ dials' = Append(dials, perm[Len(dials) + 1])]_vars

\* C11 witness: four peers, three dials started, one of them to the last entry
\* of the list, and Start is blocked in Serve.
C11_Witness ==
    /\ Len(peers) = MaxPeers
    /\ Len(dials) = BootstrapDials
    /\ \E k \in 1..BootstrapDials : DialAddr(k) = peers[MaxPeers]
    /\ spc = "serving"

\* C17: the Connects are started and left alone: whatever each of them does
\* (returns nil, returns an error, never returns), Start can start the next one
\* and then call Serve at once, no dial is started a second time, and the value
\* Start returns is the one Serve returned, whatever the Connects returned.
C17_StateInv ==
    /\ spc = "serve" => ENABLED Start_Serve
    /\ (spc = "dial" /\ dials # <<>>) => ENABLED Start_Dial
    /\ Len(conn) = Len(dials)
    /\ Len(dials) <= BootstrapDials
    /\ (spc = "returned" /\ dials # <<>>) => serveRet = <<startErr>>
C17_DialsFireAndForget ==
    /\ []C17_StateInv
    /\ [][\A k \in DOMAIN dials : k \in DOMAIN dials' /\ dials'[k] = dials[k]]_vars
    /\ [][dials' # dials =>
            \E x \in 0..(Len(peers) - 1) :
               /\ dials' = Append(dials, x)
               /\ \A k \in DOMAIN dials : dials[k] # x]_vars
    /\ [][\A k \in DOMAIN conn :
            conn[k] # "running" => (k \in DOMAIN conn' /\ conn'[k] = conn[k])]_vars

\* C17 witness: Start has returned nil, the value Serve returned, while one
\* Connect has failed, one has succeeded and one has not returned.
C17_Witness ==
    /\ spc = "returned"
    /\ startErr = Nil
    /\ serveRet = <<Nil>>
    /\ \E j, k, l \in DOMAIN conn :
          conn[j] = "err" /\ conn[k] = "ok" /\ conn[l] = "running"

\* C12: with fewer than 3 bootstrap peers (none included) the bootstrap step
\* starts at most as many dials as there are peers and does not fail: Start is
\* never stopped in the bootstrap step and, with the permutation drawn and the
\* step over, is at the call of Serve.
C12_SmallListServes ==
    Len(peers) < BootstrapDials =>
        /\ Len(dials) <= Len(peers)
        /\ spc # "panicked"

----------------------------------------------------------------------------
\* Properties of the shutdown path of the daemon

\* C13: the shutdown trigger is installed while Start is blocked in Serve, so
\* that an interrupt arriving then runs it (stopping the modules and making
\* Serve and Start return nil) and never ends the process with Start unreturned.
C13_TriggerWhileServing ==
    /\ spc = "serving" => handler
    /\ triggered => serveCalls = 1
    /\ ~(spc = "killed" /\ serveCalls = 1 /\ serveRet = <<>>)

----------------------------------------------------------------------------
\* Properties of the bootstrap-then-serve part of Start

\* All four constructors returned nil.
AllStagesBuilt == Len(live) = Len(StageOrder)

\* C14: whenever all four stages are built and Start is over, the bootstrap step
\* was invoked exactly once and before Serve, and Serve was called exactly
\* once; Start does not return while Serve has not, and the value Start
\* returns is the value Serve returned.  Violated by siad.go:47-53: Start
\* returns crypto.Perm's error without calling Serve, and perm[:3] panics on a
\* list of fewer than 3 peers.
C14_AlwaysServesOnce ==
    /\ serveCalls <= 1
    /\ serveCalls = 1 => permCalls = 1
    /\ (serveCalls = 1 /\ serveRet = <<>>) => startErr = Unset
    /\ (AllStagesBuilt /\ spc \in {"returned", "panicked"}) =>
          /\ permCalls = 1
          /\ serveCalls = 1
    /\ (AllStagesBuilt /\ spc = "returned") => serveRet = <<startErr>>

----------------------------------------------------------------------------
\* Properties of the ThreadGroup's lock

\* Positions at which a call holds tg.mu for its constant-time bookkeeping.
LockSections == {"add_check", "add_inc", "stop_check", "stop_close", "onstop_check"}

\* C15 as stated: tg.mu is held neither across the execution of a function
\* registered with OnStop nor across the drain wait: the goroutine whose Stop is
\* executing a function or waiting for the counter does not hold tg.mu.
C15_LockNeverAcrossHooks ==
    \A s \in Threads : pc[s] \in {"stop_fn", "stop_wait"} => mu # s

\* C15 (amended): tg.mu is never held across the drain wait nor across a
\* function that OnStop runs inline on a stopped group, but Stop holds it from
\* its entry until every registered function has returned. While Stop executes
\* a registered function no Add, OnStop or second Stop of another goroutine
\* gets past its tg.mu.Lock(), and IsStopped, which takes no lock, still
\* completes; while Stop waits for the drain with the lock free, Add, OnStop and
\* a second Stop proceed.
C15_LockAcrossHooksNotDrain ==
    \A s \in Threads :
        /\ mu = s <=> pc[s] \in LockSections \cup {"stop_loop", "stop_fn"}
        /\ pc[s] \in {"stop_wait", "onstop_call", "onstop_fn"} => mu # s
        /\ pc[s] = "stop_fn" =>
              \A t \in Threads \ {s} :
                  /\ ~ENABLED Add_Lock(t)
                  /\ ~ENABLED Stop_Lock(t)
                  /\ ~ENABLED OnStop_Lock(t)
                  /\ (t \in Observers /\ pc[t] = "idle") => ENABLED IsStopped_Call(t)
        /\ (pc[s] = "stop_wait" /\ mu = NoThread) =>
              \A t \in Threads \ {s} : pc[t] = "idle" =>
                  /\ (t \in Adders /\ nAdd < MaxAdd) => ENABLED Add_Lock(t)
                  /\ (t \in Stoppers /\ Len(stopRet) < MaxStop) => ENABLED Stop_Lock(t)
                  /\ (t \in Registrars /\ nFns < MaxFns) => ENABLED OnStop_Lock(t)

\* C15 witness: g3's Stop is executing a registered function and holds tg.mu
\* while g1, with a call of Add to make, and g2, with a call of Stop to make,
\* are kept out.
C15_Witness ==
    /\ pc["g3"] = "stop_fn"
    /\ mu = "g3"
    /\ pc["g1"] = "idle"
    /\ pc["g2"] = "idle"
    /\ nAdd < MaxAdd
    /\ Len(stopRet) < MaxStop

----------------------------------------------------------------------------
\* Invariants of the ThreadGroup's state

\* The stop signal has fired.
Stopped == stopChan = "closed"

\* Sum of the counts the goroutines still owe a Done for.
RECURSIVE HeldSum(_)
HeldSum(S) == IF S = {} THEN 0
              ELSE LET t == CHOOSE x \in S : TRUE IN held[t] + HeldSum(S \ {t})

\* The step is a call of IsStopped that hands a new result to its caller.
IsStoppedReturns == ret'.op = "IsStopped" /\ ret' # ret

\* C16: with Done called once per successful Add, the counter of tg.wg is never
\* negative and equals the successful Adds minus the Dones; once the stop signal
\* is closed it stays closed; IsStopped can be called on a group in its zero
\* state and before or after Stop, reports whether the signal is closed, and
\* leaves the signal's closedness, the counter, the lock and the registered
\* functions as they were.
C16_StateInv ==
    /\ wg >= 0
    /\ wg = nAcq - nRel
    /\ wg = HeldSum(Threads)
    /\ Stopped <=> closes >= 1
    /\ \A t \in Observers : pc[t] = "idle" => ENABLED IsStopped_Call(t)
C16_GroupInvariants ==
    /\ []C16_StateInv
    /\ [][Stopped => Stopped']_vars
    /\ [][IsStoppedReturns =>
            /\ ret'.val = (IF Stopped THEN "true" ELSE "false")
            /\ Stopped' <=> Stopped
            /\ UNCHANGED <<mu, wg, stopFns, pc, held, closes, nAcq, nRel>>]_vars

\* C16 witness: after two successful Adds, one Done and a Stop that closed the
\* signal, IsStopped has reported true with one unit still outstanding.
C16_Witness ==
    /\ ret = Returned("g3", "IsStopped", "true")
    /\ nAcq = 2
    /\ nRel = 1
    /\ wg = 1
    /\ Stopped

----------------------------------------------------------------------------
\* Properties of Start's failure paths

\* The modules constructed before stage k, in construction order.
BuiltBefore(k) == SubSeq(StageOrder, 1, k - 1)

\* C18: when the constructor of stage k has failed, every module constructed
\* before it is still as constructed after Start has returned: Start closes or
\* stops none of them, and no step of Start ever removes a constructed module.
C18_StateInv ==
    StageFailed =>
        /\ spc = "returned"
        /\ live = BuiltBefore(NAttempts)
        /\ ~triggered
C18_NoTeardown ==
    /\ []C18_StateInv
    /\ [][Len(live') >= Len(live) /\ SubSeq(live', 1, Len(live)) = live]_vars

\* C18 witness: api.NewServer failed as the fourth stage and Start has returned
\* with gateway, consensus set and transaction pool still constructed.
C18_Witness ==
    /\ NAttempts = Len(StageOrder)
    /\ StageFailed
    /\ spc = "returned"
    /\ Len(live) = Len(StageOrder) - 1

----------------------------------------------------------------------------
\* Properties of a Stop call that lost the race

\* Calls of Stop that returned ErrStopped.
Losers == {c \in 1..Len(stopRet) : stopRet[c] = ErrStopped}

\* C19: a Stop that returned ErrStopped did not wait for the drain: all that
\* holds when it returns (and from then on) is that the stop signal is closed
\* and that every function registered before the signal has been called and
\* has returned; the counter may still be positive and the winning Stop still
\* waiting. The step that returns ErrStopped changes neither the counter nor
\* the signal nor the registered functions.
C19_StateInv ==
    Losers # {} =>
        /\ Stopped
        /\ closes = 1
        /\ stopFns = <<>>
        /\ \A h \in Range(regLog) : Runs(h) = 1 /\ Returns(h) = 1
        /\ \E c \in 1..Len(stopRet) : stopRet[c] \in {"won", "nil"}
C19_LoserSkipsDrain ==
    /\ []C19_StateInv
    /\ [][(Losers' # Losers) =>
            /\ ret'.op = "Stop" /\ ret'.val = ErrStopped
            /\ UNCHANGED <<stopChan, wg, stopFns, fnLog, fnDone, closes>>]_vars

\* C19 witness: a Stop has returned ErrStopped while the counter is still
\* positive and the winning Stop, having run a registered function, is still
\* waiting for the drain.
C19_Witness ==
    /\ Losers # {}
    /\ wg > 0
    /\ Draining
    /\ ~WinnerReturned
    /\ Len(regLog) >= 1

\* Start is over without Serve having been called.
EndedBeforeServe == spc \in {"returned", "panicked"} /\ serveCalls = 0

\* C20: with all four stages built, a failed draw of the permutation makes Start
\* return the draw's error with no Connect started, Serve not called and the four
\* modules left as constructed, and nothing else in the bootstrap step ends
\* Start before Serve: whenever Start is over with all four stages built and
\* Serve not called, it has returned the draw's error.
C20_OnlyDrawFailureEndsStart ==
    /\ (spc = "returned" /\ startErr = PermErr) =>
          /\ AllStagesBuilt
          /\ permCalls = 1
          /\ dials = <<>>
          /\ conn = <<>>
          /\ serveCalls = 0
          /\ live = StageOrder
    /\ (AllStagesBuilt /\ EndedBeforeServe) =>
          /\ spc = "returned"
          /\ startErr = PermErr

====
